---- MODULE Spec2Model ----
(***************************************************************************)
(* yak-map: a zellij plugin that shows the directory-backed task store     *)
(* /host/.yaks as a tree, with a selection, a scrolling viewport and a     *)
(* toast.  The model follows src/src/main.rs: TaskRepository (the store    *)
(* scan), State::refresh_tasks (the tree builder), State::update (timer    *)
(* and key events) and State::render.                                      *)
(*                                                                         *)
(* A Rust String is a sequence of one-character strings, so that rfind,    *)
(* starts_with, replace, trim and split are computed as the code computes  *)
(* them.  Option<T> is a sequence of length 0 (None) or 1 (Some).          *)
(***************************************************************************)
EXTENDS Integers, Sequences, FiniteSets, TLC

\* ------------------------------------------------------------------------
\* Bounds of the model
\* ------------------------------------------------------------------------
\* directories in the store during a session (Spec)
MaxDirs == 2
\* nesting depth of directories in the store during a session (Spec)
MaxDepth == 2
\* largest frame height the host asks render for
MaxRows == 6
\* largest frame width the host asks render for
MaxCols == 6
\* directories, all at the top level, in the store of SpecView
ViewMaxDirs == 3
\* directories in a store handed to the tree builder (SpecTree)
TreeMaxDirs == 4
\* nesting depth of directories in a store handed to the tree builder
TreeMaxDepth == 3

\* ------------------------------------------------------------------------
\* Strings
\* ------------------------------------------------------------------------
None == <<>>
Some(x) == <<x>>
IsSome(o) == Len(o) = 1
Unwrap(o) == o[1]

Min(a, b) == IF a < b THEN a ELSE b
Max(a, b) == IF a > b THEN a ELSE b

\* usize::saturating_sub
SaturatingSub(a, b) == IF a >= b THEN a - b ELSE 0

\* byte value of the characters directory names are made of (OsString order)
Ord(c) ==
  CASE c = "." -> 46
    [] c = "/" -> 47
    [] c = "\\" -> 92
    [] c = "a" -> 97
    [] c = "b" -> 98
    [] c = "c" -> 99
    [] c = "d" -> 100
    [] OTHER -> 0

\* Ord::cmp of two file names: s < t
RECURSIVE StrLess(_, _)
StrLess(s, t) ==
  IF t = <<>> THEN FALSE
  ELSE IF s = <<>> THEN TRUE
  ELSE IF Ord(Head(s)) # Ord(Head(t)) THEN Ord(Head(s)) < Ord(Head(t))
  ELSE StrLess(Tail(s), Tail(t))

\* str::starts_with
StartsWith(s, p) == Len(p) <= Len(s) /\ SubSeq(s, 1, Len(p)) = p

\* str::rfind(c): the 1-based position of the last c in s, 0 when there is none
RFind(s, c) ==
  LET hits == {i \in 1..Len(s) : s[i] = c}
  IN IF hits = {} THEN 0 ELSE CHOOSE i \in hits : \A j \in hits : j <= i

\* str::replace(from, to) for a one-character pattern
ReplaceChar(s, from, to) == [i \in 1..Len(s) |-> IF s[i] = from THEN to ELSE s[i]]

\* a Vec<usize> holding the elements of S in increasing order
RECURSIVE Ascending(_)
Ascending(S) ==
  IF S = {} THEN <<>>
  ELSE LET m == CHOOSE x \in S : \A y \in S : x <= y
       IN <<m>> \o Ascending(S \ {m})

Last(s) == s[Len(s)]

\* str::split(c): the segments of s between occurrences of c
RECURSIVE Split(_, _)
Split(s, c) ==
  LET hits == {i \in 1..Len(s) : s[i] = c}
  IN IF hits = {} THEN <<s>>
     ELSE LET pos == CHOOSE i \in hits : \A j \in hits : i <= j
          IN <<SubSeq(s, 1, pos - 1)>> \o Split(SubSeq(s, pos + 1, Len(s)), c)

IsWhitespace(c) == c \in {" ", "\n", "\t"}

\* str::trim
RECURSIVE TrimStart(_)
TrimStart(s) ==
  IF s # <<>> /\ IsWhitespace(Head(s)) THEN TrimStart(Tail(s)) ELSE s

RECURSIVE TrimEnd(_)
TrimEnd(s) ==
  IF s # <<>> /\ IsWhitespace(Last(s)) THEN TrimEnd(SubSeq(s, 1, Len(s) - 1)) ELSE s

\* the leading whitespace removed only
Trim_StartOnly(s) == TrimStart(s)

Trim(s) == TrimEnd(TrimStart(s))

\* ------------------------------------------------------------------------
\* State
\* ------------------------------------------------------------------------
VARIABLES
  \* the store on disk, which other programs edit at any time
  rootExists,          \* /host/.yaks is a directory
  dirs,                \* the directories below it, each a sequence of names
  files,               \* (directory, file name) -> content of the plain files
  \* struct State
  yaks_dir,            \* repository.yaks_dir
  tasks,
  selected_index,
  scroll_offset,
  error,
  toast_message,
  toast_ticks_remaining,
  \* the host's view of the plugin
  pc,                  \* "new" until load has run, then "running"
  lastOp,              \* the callback the host invoked last
  handled,             \* what update returned (FALSE for load and render)
  frame,               \* the lines the last callback printed
  requests,            \* the host requests the last callback issued
  scanned,             \* the last callback read a directory of the store
  visibleRows          \* max_rows as the last callback computed it, 0 if it did not

storeVars == <<rootExists, dirs, files>>
stateVars == <<yaks_dir, tasks, selected_index, scroll_offset, error,
               toast_message, toast_ticks_remaining>>
hostVars == <<pc, lastOp, handled, frame, requests, scanned, visibleRows>>
vars == <<storeVars, stateVars, hostVars>>

\* ------------------------------------------------------------------------
\* The store
\* ------------------------------------------------------------------------
NameA == <<"a">>
NameB == <<"b">>
NameC == <<"c">>
NameD == <<"d">>
NameDotA == <<".", "a">>
NameABackslashB == <<"a", "\\", "b">>

\* directory names the session's store is built from
SessionNames == {NameA, NameB}
\* directory names the store of SpecView is built from
ViewNames == {NameA, NameB, NameC, NameD}
\* directory names the stores handed to the tree builder are built from
TreeNames == {NameA, NameB, NameDotA, NameABackslashB}

FieldNames == {"state", "name", "id", "assigned-to", "agent-status", "context.md"}

DirParent(p) == SubSeq(p, 1, Len(p) - 1)

\* the names of the directories directly inside dir
ChildNames(D, dir) ==
  {Last(p) : p \in {q \in D : Len(q) = Len(dir) + 1 /\ DirParent(q) = dir}}

\* every directory's parent directory exists
WellFormedDirs(D) == \A p \in D : Len(p) >= 1 /\ (Len(p) > 1 => DirParent(p) \in D)

\* the stores of at most n directories, nested at most depth deep, named from names
RECURSIVE StoresUpTo(_, _, _)
StoresUpTo(n, depth, names) ==
  IF n = 0 THEN {{}}
  ELSE LET prev == StoresUpTo(n - 1, depth, names)
       IN prev \cup
          UNION {{D \cup {Append(d, nm)} :
                    d \in {e \in D \cup {<<>>} : Len(e) < depth}, nm \in names} :
                 D \in prev}

TreeStores == StoresUpTo(TreeMaxDirs, TreeMaxDepth, TreeNames)

\* ------------------------------------------------------------------------
\* TaskRepository
\* ------------------------------------------------------------------------
NoYaksDir == ""
HostYaksDir == "/host/.yaks"

\* repository.yaks_dir taken to name the store even when it was never set
YaksDirExists_AnyDir(yd, root) == root

\* Path::exists for repository.yaks_dir: the empty path names nothing
YaksDirExists(yd, root) == yd = HostYaksDir /\ root

\* the names of the directories in dir, sorted by file name
RECURSIVE SortedNames(_)
SortedNames(S) ==
  IF S = {} THEN <<>>
  ELSE LET m == CHOOSE x \in S : \A y \in S \ {x} : StrLess(x, y)
       IN <<m>> \o SortedNames(S \ {m})

\* relative.to_string_lossy(): the names of the path joined by the separator
RECURSIVE JoinPath(_)
JoinPath(p) ==
  IF Len(p) = 0 THEN <<>>
  ELSE IF Len(p) = 1 THEN p[1]
  ELSE p[1] \o <<"/">> \o JoinPath(Tail(p))

\* relative.to_string_lossy().replace('\\', "/")
TaskPath(p) == ReplaceChar(JoinPath(p), "\\", "/")

RECURSIVE walk_dir(_, _, _)
RECURSIVE WalkEntries(_, _, _, _)
\* the loop over the sorted entries of dir
WalkEntries(D, entries, dir, depth) ==
  IF entries = <<>> THEN <<>>
  ELSE LET path == Append(dir, Head(entries))
           task_path == TaskPath(path)
           here == IF ~StartsWith(task_path, <<".">>)
                   THEN <<[path |-> task_path, depth |-> depth]>>
                        \o walk_dir(D, path, depth + 1)
                   ELSE <<>>
       IN here \o WalkEntries(D, Tail(entries), dir, depth)

walk_dir(D, dir, depth) == WalkEntries(D, SortedNames(ChildNames(D, dir)), dir, depth)

list_tasks(yd, root, D) ==
  IF YaksDirExists(yd, root) THEN walk_dir(D, <<>>, 0) ELSE <<>>

\* the directory that yaks_dir.join(task_path) names
ResolveDir(task_path) == SelectSeq(Split(task_path, "/"), LAMBDA seg : seg # <<>>)

\* a byte that occurs in no UTF-8 text
InvalidByte == "INVALID_BYTE"

\* read_to_string succeeds on the bytes of a file only when they are UTF-8
IsUtf8(bytes) == \A i \in 1..Len(bytes) : bytes[i] # InvalidByte

get_field(F, task_path, field) ==
  LET key == <<ResolveDir(task_path), field>>
      read == IF key \in DOMAIN F /\ IsUtf8(F[key]) THEN Some(F[key]) ELSE None
      trimmed == IF IsSome(read) THEN Some(Trim(Unwrap(read))) ELSE None
  IN IF IsSome(trimmed) /\ Unwrap(trimmed) # <<>> THEN trimmed ELSE None

\* path.split('/').last()
LastSegment(path) == Last(Split(path, "/"))

get_task(F, path, depth) ==
  LET state_str == get_field(F, path, "state")
      state == IF state_str = Some(<<"w", "i", "p">>) THEN "Wip"
               ELSE IF state_str = Some(<<"d", "o", "n", "e">>) THEN "Done"
               ELSE "Todo"
      name_field == get_field(F, path, "name")
      id_field == get_field(F, path, "id")
  IN [path |-> path,
      name |-> IF IsSome(name_field) THEN Unwrap(name_field) ELSE LastSegment(path),
      yak_id |-> IF IsSome(id_field) THEN Unwrap(id_field) ELSE LastSegment(path),
      depth |-> depth,
      state |-> state,
      assigned_to |-> get_field(F, path, "assigned-to"),
      agent_status |-> get_field(F, path, "agent-status"),
      has_children |-> FALSE,
      is_last_sibling |-> FALSE,
      ancestor_continuations |-> <<>>]

\* ------------------------------------------------------------------------
\* State::refresh_tasks
\* ------------------------------------------------------------------------
\* the part of path before its last '/', the empty string when it has none
ParentPath(path) ==
  LET pos == RFind(path, "/")
  IN IF pos = 0 THEN <<>> ELSE SubSeq(path, 1, pos - 1)

\* path_to_index.get(path): a later task of the same path replaces an earlier one
path_to_index(ts, path) ==
  LET hits == {i \in 1..Len(ts) : ts[i].path = path}
  IN IF hits = {} THEN None ELSE Some(CHOOSE i \in hits : \A j \in hits : j <= i)

\* the prefix test without the separator
has_children_NoSlash(ts, i) ==
  \E j \in 1..Len(ts) : StartsWith(ts[j].path, ts[i].path)

has_children(ts, i) ==
  \E j \in 1..Len(ts) : StartsWith(ts[j].path, ts[i].path \o <<"/">>)

\* parent path -> the indices of the tasks below it, in list order
by_parent(ts) ==
  [p \in {ParentPath(ts[i].path) : i \in 1..Len(ts)} |->
     Ascending({i \in 1..Len(ts) : ParentPath(ts[i].path) = p})]

\* the first index of each group marked instead of the last
is_last_sibling_First(ts, i) ==
  LET bp == by_parent(ts) IN \E p \in DOMAIN bp : Head(bp[p]) = i

is_last_sibling(ts, i) ==
  LET bp == by_parent(ts) IN \E p \in DOMAIN bp : Last(bp[p]) = i

\* the while loop over the ancestors of a task, from `current` outwards
RECURSIVE ContinuationsFrom(_, _, _)
ContinuationsFrom(ts, bp, current) ==
  IF ~IsSome(current) THEN <<>>
  ELSE LET ancestor == Unwrap(current)
           parent_of_ancestor == ParentPath(ancestor)
           ancestors_siblings == IF parent_of_ancestor \in DOMAIN bp
                                 THEN bp[parent_of_ancestor] ELSE <<>>
           index == path_to_index(ts, ancestor)
           positions == {k \in 1..Len(ancestors_siblings) :
                           IsSome(index) /\ ancestors_siblings[k] = Unwrap(index)}
           pushed == IF positions # {}
                     THEN LET pos == CHOOSE k \in positions : \A l \in positions : k <= l
                          IN <<pos < Len(ancestors_siblings)>>
                     ELSE <<>>
           next == IF RFind(ancestor, "/") # 0 THEN Some(ParentPath(ancestor)) ELSE None
       IN pushed \o ContinuationsFrom(ts, bp, next)

ancestor_continuations(ts, i) ==
  LET path == ts[i].path
      current == IF RFind(path, "/") # 0 THEN Some(ParentPath(path)) ELSE None
  IN ContinuationsFrom(ts, by_parent(ts), current)

\* the task list refresh_tasks builds from the store
BuildTasks(yd, root, D, F) ==
  LET task_paths == list_tasks(yd, root, D)
      ts == [i \in 1..Len(task_paths) |->
               get_task(F, task_paths[i].path, task_paths[i].depth)]
  IN [i \in 1..Len(ts) |->
        [ts[i] EXCEPT !.has_children = has_children(ts, i),
                      !.is_last_sibling = is_last_sibling(ts, i),
                      !.ancestor_continuations = ancestor_continuations(ts, i)]]

\* the clamp to len instead of len - 1
ClampSelected_ToLen(sel, len) ==
  IF len = 0 THEN 0
  ELSE IF sel >= len THEN len
  ELSE sel

\* the clamp applied to the last index too, one below it
ClampSelected_BelowLast(sel, len) ==
  IF len = 0 THEN 0
  ELSE IF sel + 1 >= len THEN SaturatingSub(len, 2)
  ELSE sel

\* selected_index after refresh_tasks has installed a list of length len
ClampSelected(sel, len) ==
  IF len = 0 THEN 0
  ELSE IF sel >= len THEN len - 1
  ELSE sel

\* the effect of refresh_tasks on the fields of State, with repository.yaks_dir = yd
refresh_tasks(yd) ==
  LET ts == BuildTasks(yd, rootExists, dirs, files)
  IN /\ tasks' = ts
     /\ selected_index' = ClampSelected(selected_index, Len(ts))
     /\ scanned' = YaksDirExists(yd, rootExists)

\* ------------------------------------------------------------------------
\* Line renderer
\* ------------------------------------------------------------------------
\* "ESC" stands for the character \x1b, "BACKTICK" for the grave accent;
\* "VLINE", "TEE", "CORNER", "HLINE",
\* "FILLED" and "OPEN" stand for the one-character glyphs U+2502, U+251C,
\* U+2570, U+2500, U+25CF and U+25CB
Esc == "ESC"
Csi(params) == <<Esc, "[">> \o params \o <<"m">>
Reset == Csi(<<"0">>)
Bold == Csi(<<"1">>)
Reverse == Csi(<<"7">>)
Strike == Csi(<<"9">>)
Red == Csi(<<"3", "1">>)
Green == Csi(<<"3", "2">>)
Yellow == Csi(<<"3", "3">>)
Cyan == Csi(<<"3", "6">>)
White == Csi(<<"3", "7">>)
Gray == Csi(<<"9", "0">>)
Bg == Csi(<<"4", "8", ";", "5", ";", "2", "3", "7">>)

StrBlocked ==
  <<"b", "l", "o", "c", "k", "e", "d", ":">>
StrDone ==
  <<"d", "o", "n", "e", ":">>
StrWip ==
  <<"w", "i", "p", ":">>

\* the colour taken from the lifecycle state alone
task_color_LifecycleOnly(task) ==
  CASE task.state = "Wip" -> Yellow
    [] task.state = "Done" -> Gray
    [] task.state = "Todo" -> White

task_color(task) ==
  LET status == task.agent_status
  IN IF IsSome(status) /\ StartsWith(Unwrap(status), StrBlocked) THEN Red
     ELSE IF IsSome(status) /\ StartsWith(Unwrap(status), StrDone) THEN Green
     ELSE IF IsSome(status) /\ StartsWith(Unwrap(status), StrWip) THEN Yellow
     ELSE CASE task.state = "Wip" -> Yellow
            [] task.state = "Done" -> Gray
            [] task.state = "Todo" -> White

\* the glyph taken from the lifecycle state alone
status_symbol_LifecycleOnly(task) ==
  IF task.state \in {"Wip", "Done"} THEN "FILLED" ELSE "OPEN"

status_symbol(task) ==
  LET status == task.agent_status
  IN IF IsSome(status) /\ StartsWith(Unwrap(status), StrDone) THEN "FILLED"
     ELSE IF IsSome(status) /\ (\/ StartsWith(Unwrap(status), StrWip)
                                \/ StartsWith(Unwrap(status), StrBlocked))
          THEN "FILLED"
     ELSE IF task.state \in {"Wip", "Done"} THEN "FILLED" ELSE "OPEN"

\* the continuation columns of cols[1..n], printed from cols[n] down to cols[1]
RECURSIVE PrefixColumns(_, _)
PrefixColumns(cols, n) ==
  IF n = 0 THEN <<>>
  ELSE (IF cols[n] THEN Gray \o <<"VLINE", " ">> \o Reset ELSE <<" ", " ">>)
       \o PrefixColumns(cols, n - 1)

\* every continuation entry printed as a column, the root-most one included
tree_prefix_AllColumns(task) ==
  IF task.depth = 0 THEN <<>>
  ELSE PrefixColumns(task.ancestor_continuations, Len(task.ancestor_continuations))
       \o (IF task.is_last_sibling
           THEN Gray \o <<"CORNER", "HLINE">> \o Reset
           ELSE Gray \o <<"TEE", "HLINE">> \o Reset)

tree_prefix(task) ==
  IF task.depth = 0 THEN <<>>
  ELSE LET col_count == SaturatingSub(task.depth, 1)
           n == Min(col_count, Len(task.ancestor_continuations))
       IN PrefixColumns(task.ancestor_continuations, n)
          \o (IF task.is_last_sibling
              THEN Gray \o <<"CORNER", "HLINE">> \o Reset
              ELSE Gray \o <<"TEE", "HLINE">> \o Reset)

render_task(task) ==
  LET prefix == tree_prefix(task)
      status == status_symbol(task)
      color == task_color(task)
      name == IF task.state = "Done" THEN Strike \o task.name \o Reset ELSE task.name
      assignment == IF IsSome(task.assigned_to)
                    THEN <<" ", "[">> \o Cyan \o Unwrap(task.assigned_to) \o Reset \o <<"]">>
                    ELSE <<>>
      status_color == IF task.state = "Done" THEN Gray ELSE color
  IN prefix \o status_color \o <<status, " ">> \o name \o assignment \o Reset

IsAsciiAlphabetic(c) ==
  c \in {"a", "b", "c", "d", "e", "f", "g", "h", "i", "j", "k", "l", "m",
         "n", "o", "p", "q", "r", "s", "t", "u", "v", "w", "x", "y", "z",
         "A", "B", "C", "D", "E", "F", "G", "H", "I", "J", "K", "L", "M",
         "N", "O", "P", "Q", "R", "S", "T", "U", "V", "W", "X", "Y", "Z"}

\* the inner loop of strip_ansi: drop up to and including the first letter
RECURSIVE SkipSequence(_)
SkipSequence(s) ==
  IF s = <<>> THEN <<>>
  ELSE IF IsAsciiAlphabetic(Head(s)) THEN Tail(s)
  ELSE SkipSequence(Tail(s))

RECURSIVE strip_ansi(_)
strip_ansi(s) ==
  IF s = <<>> THEN <<>>
  ELSE IF Head(s) = Esc /\ Len(s) >= 2 /\ s[2] = "["
       THEN strip_ansi(SkipSequence(SubSeq(s, 3, Len(s))))
  ELSE <<Head(s)>> \o strip_ansi(Tail(s))

\* str::replace(from, to): every non-overlapping match, left to right
RECURSIVE ReplaceStr(_, _, _)
ReplaceStr(s, from, to) ==
  IF s = <<>> THEN <<>>
  ELSE IF StartsWith(s, from) THEN to \o ReplaceStr(SubSeq(s, Len(from) + 1, Len(s)), from, to)
  ELSE <<Head(s)>> \o ReplaceStr(Tail(s), from, to)

\* the highlight made with reverse video around the line
highlight_line_ReverseVideo(line, padding) ==
  Reverse \o line \o padding \o Reset

highlight_line(line, padding) ==
  Bg \o ReplaceStr(line, Reset, Reset \o Bg) \o padding \o Reset

\* " ".repeat(n)
Spaces(n) == [i \in 1..n |-> " "]

\* ------------------------------------------------------------------------
\* State::render
\* ------------------------------------------------------------------------
StrErrorLabel ==
  <<"E", "r", "r", "o", "r", ":", " ">>
StrYaksNotFound ==
  <<"Y", "a", "k", "s", " ", "d", "i", "r", "e", "c", "t", "o", "r", "y",
    " ", "n", "o", "t", " ", "f", "o", "u", "n", "d", ":", " ", "/", "h",
    "o", "s", "t", "/", ".", "y", "a", "k", "s", "\n", "R", "u", "n", " ",
    "BACKTICK", "y", "x", " ", "a", "d", "d", " ", "<", "n", "a", "m", "e", ">",
    "BACKTICK", " ", "t", "o", " ", "c", "r", "e", "a", "t", "e", " ", "a", " ",
    "t", "a", "s", "k", ".">>
StrNoTasks ==
  <<"N", "o", " ", "t", "a", "s", "k", "s", ".", " ", "R", "u", "n", " ",
    "BACKTICK", "y", "x", " ", "a", "d", "d", " ", "<", "n", "a", "m", "e", ">",
    "BACKTICK", " ", "t", "o", " ", "c", "r", "e", "a", "t", "e", " ", "o", "n",
    "e", ".">>
StrRefreshInterval ==
  <<"(", "R", "e", "f", "r", "e", "s", "h", " ", "i", "n", "t", "e", "r",
    "v", "a", "l", ":", " ", "2", "s", ")">>
StrCopied ==
  <<"C", "o", "p", "i", "e", "d", ":", " ">>

\* rows left for tasks in a frame of the given height
MaxTaskRows(rows, toast) == SaturatingSub(rows, 3 + (IF IsSome(toast) THEN 2 ELSE 0))

\* the scroll-down branch one row short
SyncScroll_OffByOne(sel, scroll, max_rows) ==
  IF sel < scroll THEN sel
  ELSE IF max_rows > 0 /\ sel >= scroll + max_rows THEN sel - max_rows
  ELSE scroll

\* the scroll-up branch left out
SyncScroll_NoScrollUp(sel, scroll, max_rows) ==
  IF max_rows > 0 /\ sel >= scroll + max_rows THEN sel - max_rows + 1
  ELSE scroll

\* the scroll-down branch putting the selected row at the top of the window
SyncScroll_JumpToSelected(sel, scroll, max_rows) ==
  IF sel < scroll THEN sel
  ELSE IF max_rows > 0 /\ sel >= scroll + max_rows THEN sel
  ELSE scroll

\* scroll_offset after the correction render applies
SyncScroll(sel, scroll, max_rows) ==
  IF sel < scroll THEN sel
  ELSE IF max_rows > 0 /\ sel >= scroll + max_rows THEN sel - max_rows + 1
  ELSE scroll

\* the row above the selected one highlighted
TaskRow_RowAbove(ts, i, sel, cols) ==
  LET line == render_task(ts[i + 1])
  IN IF i + 1 = sel
     THEN LET visible_len == Len(strip_ansi(line))
          IN highlight_line(line, Spaces(SaturatingSub(cols, visible_len)))
     ELSE line

\* the line render prints for tasks[i + 1], the task of 0-based index i
TaskRow(ts, i, sel, cols) ==
  LET line == render_task(ts[i + 1])
  IN IF i = sel
     THEN LET visible_len == Len(strip_ansi(line))
          IN highlight_line(line, Spaces(SaturatingSub(cols, visible_len)))
     ELSE line

\* the lines of the loop over tasks.iter().skip(scroll).take(max_rows)
TaskRows(ts, sel, scroll, max_rows, cols) ==
  LET shown == Min(max_rows, SaturatingSub(Len(ts), scroll))
  IN [k \in 1..shown |-> TaskRow(ts, scroll + k - 1, sel, cols)]

ToastRows(toast) ==
  IF IsSome(toast)
  THEN <<<<>>, Reverse \o Bold \o <<" ">> \o Unwrap(toast) \o <<" ">> \o Reset>>
  ELSE <<>>

\* ------------------------------------------------------------------------
\* Construction and ZellijPlugin::load
\* ------------------------------------------------------------------------
Request(kind, arg) == [kind |-> kind, arg |-> arg]

\* State::default()
DefaultState ==
  /\ yaks_dir = NoYaksDir
  /\ tasks = <<>>
  /\ selected_index = 0
  /\ scroll_offset = 0
  /\ error = None
  /\ toast_message = None
  /\ toast_ticks_remaining = 0

NotYetLoaded ==
  /\ pc = "new"
  /\ lastOp = "new"
  /\ handled = FALSE
  /\ frame = <<>>
  /\ requests = <<>>
  /\ scanned = FALSE
  /\ visibleRows = 0

Init ==
  /\ rootExists \in BOOLEAN
  /\ dirs = {}
  /\ files = <<>>
  /\ DefaultState
  /\ NotYetLoaded

LoadRequests ==
  <<Request("subscribe", <<>>), Request("set_timeout", <<>>),
    Request("request_permission", <<>>)>>

Load ==
  /\ pc = "new"
  /\ pc' = "running"
  /\ lastOp' = "load"
  /\ handled' = FALSE
  /\ frame' = <<>>
  /\ requests' = LoadRequests
  /\ visibleRows' = 0
  /\ IF ~rootExists
     THEN /\ error' = Some(StrYaksNotFound)
          /\ scanned' = FALSE
          /\ UNCHANGED <<yaks_dir, tasks, selected_index>>
     ELSE /\ yaks_dir' = HostYaksDir
          /\ refresh_tasks(HostYaksDir)
          /\ UNCHANGED error
  /\ UNCHANGED <<scroll_offset, toast_message, toast_ticks_remaining>>
  /\ UNCHANGED storeVars

\* ------------------------------------------------------------------------
\* ZellijPlugin::update
\* ------------------------------------------------------------------------
Keys == {"Up", "Down", "k", "j", "r", "e", "y", "Enter", "x"}

\* the u8 decrement without its guard
TicksAfterTick_Unguarded(ticks) == (ticks - 1) % 256

\* toast_ticks_remaining after the countdown step of a timer event
TicksAfterTick(ticks) == IF ticks > 0 THEN ticks - 1 ELSE ticks

\* the toast kept when the countdown reaches zero
ToastAfterTick_Kept(msg, ticks) == msg

\* toast_message after the countdown step of a timer event
ToastAfterTick(msg, ticks) ==
  IF ticks > 0 /\ ticks - 1 = 0 THEN None ELSE msg

\* Event::Timer
TimerTick ==
  /\ pc = "running"
  /\ lastOp' = "timer"
  /\ handled' = TRUE
  /\ frame' = <<>>
  /\ requests' = <<Request("set_timeout", <<>>)>>
  /\ visibleRows' = 0
  /\ refresh_tasks(yaks_dir)
  /\ toast_ticks_remaining' = TicksAfterTick(toast_ticks_remaining)
  /\ toast_message' = ToastAfterTick(toast_message, toast_ticks_remaining)
  /\ UNCHANGED <<pc, yaks_dir, scroll_offset, error>>
  /\ UNCHANGED storeVars

\* the decrement without its guard
MoveUp_Unguarded(sel) == sel - 1

\* selected_index after Up or 'k'
MoveUp(sel) == IF sel > 0 THEN sel - 1 ELSE sel

\* the increment without its guard
MoveDown_Unguarded(sel, len) == sel + 1

\* selected_index after Down or 'j'
MoveDown(sel, len) == IF sel + 1 < len THEN sel + 1 ELSE sel

\* tasks.get(selected_index)
SelectedTask == IF selected_index < Len(tasks) THEN Some(tasks[selected_index + 1]) ELSE None

\* the directories create_dir_all makes for the directory dir
Prefixes(dir) == {SubSeq(dir, 1, n) : n \in 1..Len(dir)}

\* the existence test made on the directory of the task instead of the file
ContextExists_DirOnly(task) ==
  /\ YaksDirExists(yaks_dir, rootExists)
  /\ ResolveDir(task.path) \in dirs

\* context_path.exists()
ContextExists(task) ==
  /\ YaksDirExists(yaks_dir, rootExists)
  /\ <<ResolveDir(task.path), "context.md">> \in DOMAIN files

\* the arm of 'e'
EditContext ==
  IF IsSome(SelectedTask)
  THEN LET task == Unwrap(SelectedTask)
           dir == ResolveDir(task.path)
           key == <<dir, "context.md">>
       IN /\ rootExists' = TRUE
          /\ dirs' = dirs \cup Prefixes(dir)
          /\ files' = IF key \in DOMAIN files THEN files ELSE (key :> <<>>) @@ files
          /\ requests' = <<Request("open_file_floating", task.path)>>
  ELSE /\ requests' = <<>>
       /\ UNCHANGED storeVars

\* the arm of 'y'
CopyName ==
  IF IsSome(SelectedTask)
  THEN LET task == Unwrap(SelectedTask)
       IN /\ requests' = <<Request("run_command", task.yak_id)>>
          /\ toast_message' = Some(StrCopied \o task.yak_id)
          /\ toast_ticks_remaining' = 1
  ELSE /\ requests' = <<>>
       /\ UNCHANGED <<toast_message, toast_ticks_remaining>>

open_selected_task_context ==
  IF IsSome(SelectedTask) /\ ContextExists(Unwrap(SelectedTask))
  THEN requests' = <<Request("open_command_pane_floating", Unwrap(SelectedTask).path)>>
  ELSE requests' = <<>>

\* the guard of the match arms dropped
ArmMatches_AnyModifiers(k, nomod, keys) == k \in keys

\* a match arm `keys if key.has_no_modifiers()`
ArmMatches(k, nomod, keys) == k \in keys /\ nomod

\* Event::Key with bare key k; nomod is key.has_no_modifiers()
KeyPress(k, nomod) ==
  /\ pc = "running"
  /\ lastOp' = "key"
  /\ frame' = <<>>
  /\ visibleRows' = 0
  /\ UNCHANGED <<pc, yaks_dir, scroll_offset, error>>
  /\ CASE ArmMatches(k, nomod, {"Up", "k"}) ->
            /\ selected_index' = MoveUp(selected_index)
            /\ handled' = TRUE
            /\ requests' = <<>>
            /\ scanned' = FALSE
            /\ UNCHANGED <<tasks, toast_message, toast_ticks_remaining, storeVars>>
       [] ArmMatches(k, nomod, {"Down", "j"}) ->
            /\ selected_index' = MoveDown(selected_index, Len(tasks))
            /\ handled' = TRUE
            /\ requests' = <<>>
            /\ scanned' = FALSE
            /\ UNCHANGED <<tasks, toast_message, toast_ticks_remaining, storeVars>>
       [] ArmMatches(k, nomod, {"r"}) ->
            /\ refresh_tasks(yaks_dir)
            /\ handled' = TRUE
            /\ requests' = <<>>
            /\ UNCHANGED <<toast_message, toast_ticks_remaining, storeVars>>
       [] ArmMatches(k, nomod, {"e"}) ->
            /\ EditContext
            /\ handled' = TRUE
            /\ scanned' = FALSE
            /\ UNCHANGED <<tasks, selected_index, toast_message, toast_ticks_remaining>>
       [] ArmMatches(k, nomod, {"y"}) ->
            /\ CopyName
            /\ handled' = TRUE
            /\ scanned' = FALSE
            /\ UNCHANGED <<tasks, selected_index, storeVars>>
       [] ArmMatches(k, nomod, {"Enter"}) ->
            /\ open_selected_task_context
            /\ handled' = TRUE
            /\ scanned' = FALSE
            /\ UNCHANGED <<tasks, selected_index, toast_message,
                           toast_ticks_remaining, storeVars>>
       [] OTHER ->
            /\ handled' = FALSE
            /\ requests' = <<>>
            /\ scanned' = FALSE
            /\ UNCHANGED <<tasks, selected_index, toast_message,
                           toast_ticks_remaining, storeVars>>

\* any event other than Timer and Key
OtherEvent ==
  /\ pc = "running"
  /\ lastOp' = "other"
  /\ handled' = FALSE
  /\ frame' = <<>>
  /\ visibleRows' = 0
  /\ requests' = <<>>
  /\ scanned' = FALSE
  /\ UNCHANGED <<pc, stateVars, storeVars>>

\* ------------------------------------------------------------------------
\* ZellijPlugin::render
\* ------------------------------------------------------------------------
\* the empty-list test made before the error test
RenderFrame_ErrorAfterEmpty(err, ts, sel, scroll, toast, rows, cols) ==
  IF ts = <<>> THEN <<StrNoTasks, StrRefreshInterval>>
  ELSE IF IsSome(err) THEN <<Red \o StrErrorLabel \o Unwrap(err) \o Reset>>
  ELSE TaskRows(ts, sel, scroll, MaxTaskRows(rows, toast), cols) \o ToastRows(toast)

\* what render prints, given the scroll_offset it has corrected
RenderFrame(err, ts, sel, scroll, toast, rows, cols) ==
  IF IsSome(err) THEN <<Red \o StrErrorLabel \o Unwrap(err) \o Reset>>
  ELSE IF ts = <<>> THEN <<StrNoTasks, StrRefreshInterval>>
  ELSE TaskRows(ts, sel, scroll, MaxTaskRows(rows, toast), cols) \o ToastRows(toast)

\* the correction applied before the early returns too
RenderScroll_BeforeReturn(err, ts, sel, scroll, toast, rows) ==
  SyncScroll(sel, scroll, MaxTaskRows(rows, toast))

\* scroll_offset after render: the error and the empty list return before the correction
RenderScroll(err, ts, sel, scroll, toast, rows) ==
  IF IsSome(err) \/ ts = <<>> THEN scroll
  ELSE SyncScroll(sel, scroll, MaxTaskRows(rows, toast))

Render(rows, cols) ==
  /\ pc = "running"
  /\ lastOp' = "render"
  /\ handled' = FALSE
  /\ requests' = <<>>
  /\ scanned' = FALSE
  /\ visibleRows' = IF IsSome(error) \/ tasks = <<>> THEN 0
                     ELSE MaxTaskRows(rows, toast_message)
  /\ scroll_offset' = RenderScroll(error, tasks, selected_index, scroll_offset,
                                   toast_message, rows)
  /\ frame' = RenderFrame(error, tasks, selected_index, scroll_offset',
                          toast_message, rows, cols)
  /\ UNCHANGED <<pc, yaks_dir, tasks, selected_index, error,
                 toast_message, toast_ticks_remaining>>
  /\ UNCHANGED storeVars

\* ------------------------------------------------------------------------
\* Other programs editing the store
\* ------------------------------------------------------------------------
\* plain files in the store during a session
MaxFiles == 1

\* the directory paths of at most depth names
RECURSIVE PathsUpTo(_, _)
PathsUpTo(names, depth) ==
  IF depth = 0 THEN {<<>>}
  ELSE LET shorter == PathsUpTo(names, depth - 1)
       IN shorter \cup {Append(p, nm) : p \in shorter, nm \in names}

SessionPaths == PathsUpTo(SessionNames, MaxDepth) \ {<<>>}

\* what other programs write into the plain files of a task
SessionFiles == {<<"context.md", <<>>>>}

CreateRoot ==
  /\ ~rootExists
  /\ rootExists' = TRUE
  /\ UNCHANGED <<dirs, files, stateVars, hostVars>>

RemoveRoot ==
  /\ rootExists
  /\ dirs = {}
  /\ rootExists' = FALSE
  /\ UNCHANGED <<dirs, files, stateVars, hostVars>>

Mkdir(p, maxDirs) ==
  /\ rootExists
  /\ p \notin dirs
  /\ Len(p) > 1 => DirParent(p) \in dirs
  /\ Cardinality(dirs) < maxDirs
  /\ dirs' = dirs \cup {p}
  /\ UNCHANGED <<rootExists, files, stateVars, hostVars>>

\* rm -r of a directory that has no directory inside it
Rmdir(p) ==
  /\ p \in dirs
  /\ ChildNames(dirs, p) = {}
  /\ dirs' = dirs \ {p}
  /\ files' = [key \in {k \in DOMAIN files : k[1] # p} |-> files[key]]
  /\ UNCHANGED <<rootExists, stateVars, hostVars>>

WriteFile(d, field, content) ==
  /\ d \in dirs
  /\ <<d, field>> \in DOMAIN files \/ Cardinality(DOMAIN files) < MaxFiles
  /\ files' = [key \in DOMAIN files \cup {<<d, field>>} |->
                 IF key = <<d, field>> THEN content ELSE files[key]]
  /\ UNCHANGED <<rootExists, dirs, stateVars, hostVars>>

RemoveFile(key) ==
  /\ key \in DOMAIN files
  /\ files' = [k \in DOMAIN files \ {key} |-> files[k]]
  /\ UNCHANGED <<rootExists, dirs, stateVars, hostVars>>

StoreEdit ==
  \/ CreateRoot
  \/ RemoveRoot
  \/ \E p \in SessionPaths : Mkdir(p, MaxDirs)
  \/ \E p \in dirs : Rmdir(p)
  \/ \E d \in dirs, f \in SessionFiles : WriteFile(d, f[1], f[2])
  \/ \E key \in DOMAIN files : RemoveFile(key)

\* ------------------------------------------------------------------------
\* The session: the host delivers events one at a time
\* ------------------------------------------------------------------------
RowsSet == 0..MaxRows
ColsSet == {0, MaxCols}

\* the store stays within maxDirs directories and maxFiles files: 'e' is
\* pressed only when what it creates fits
StoreWithinBounds(maxDirs, maxFiles) ==
  /\ Cardinality(dirs') <= maxDirs
  /\ Cardinality(DOMAIN files') <= maxFiles

Next ==
  \/ Load
  \/ TimerTick
  \/ \E k \in Keys, nomod \in BOOLEAN : KeyPress(k, nomod) /\ StoreWithinBounds(MaxDirs, MaxFiles)
  \/ OtherEvent
  \/ \E rows \in RowsSet, cols \in ColsSet : Render(rows, cols)
  \/ StoreEdit

Spec == Init /\ [][Next]_vars

\* a timer event would leave every variable as it is
TimerTickIdle ==
  /\ lastOp = "timer"
  /\ handled
  /\ frame = <<>>
  /\ requests = <<Request("set_timeout", <<>>)>>
  /\ visibleRows = 0
  /\ tasks = BuildTasks(yaks_dir, rootExists, dirs, files)
  /\ selected_index = ClampSelected(selected_index, Len(tasks))
  /\ scanned = YaksDirExists(yaks_dir, rootExists)
  /\ toast_ticks_remaining = 0

\* ENABLED <<TimerTick>>_vars, as a state predicate
TimerTickEnabled == pc = "running" /\ ~TimerTickIdle

\* WF_vars(TimerTick) by the definition of WF: load and every timer event
\* re-arm the timeout, so a timer event that stays possible arrives
TimerFairness == []<>(~TimerTickEnabled) \/ []<><<TimerTick>>_vars

\* the session in which timer events keep arriving
SpecLive == Init /\ [][Next]_vars /\ TimerFairness

\* ------------------------------------------------------------------------
\* The viewport over a flat store of up to ViewMaxDirs tasks without files
\* ------------------------------------------------------------------------
ViewPaths == {<<nm>> : nm \in ViewNames}

ViewStoreEdit ==
  \/ CreateRoot
  \/ RemoveRoot
  \/ \E p \in ViewPaths : Mkdir(p, ViewMaxDirs)
  \/ \E p \in dirs : Rmdir(p)

NextView ==
  \/ Load
  \/ TimerTick
  \/ \E k \in Keys, nomod \in BOOLEAN : KeyPress(k, nomod) /\ StoreWithinBounds(ViewMaxDirs, 0)
  \/ OtherEvent
  \/ \E rows \in RowsSet, cols \in ColsSet : Render(rows, cols)
  \/ ViewStoreEdit

SpecView == Init /\ [][NextView]_vars

\* ------------------------------------------------------------------------
\* The tree builder on every store of TreeStores: load scans the store once
\* ------------------------------------------------------------------------
InitTree ==
  /\ rootExists = TRUE
  /\ dirs \in TreeStores
  /\ files = <<>>
  /\ DefaultState
  /\ NotYetLoaded

NextTree == Load

SpecTree == InitTree /\ [][NextTree]_vars

\* ------------------------------------------------------------------------
\* The line renderer on stores whose tasks carry field files: load scans
\* the store, render prints the lines
\* ------------------------------------------------------------------------
\* contents of a state file
StateContents ==
  {<<"w", "i", "p">>, <<"d", "o", "n", "e">>, <<"t", "o", "d", "o">>,
   <<" ", "d", "o", "n", "e", "\n">>}

\* contents of an agent-status file
AgentStatusContents ==
  {StrBlocked \o <<" ", "x">>, StrDone \o <<" ", "x">>, StrWip \o <<" ", "x">>,
   <<"w", "i", "p">>, <<"x">>}

\* contents of an assigned-to file
AssignedToContents == {<<"m", "e">>}

\* a content, or no file
Optional(S) == {None} \cup {Some(c) : c \in S}

\* the field files of directory d
FieldFiles(d, st, ag, assignee) ==
  LET keys == (IF IsSome(st) THEN {<<d, "state">>} ELSE {})
              \cup (IF IsSome(ag) THEN {<<d, "agent-status">>} ELSE {})
              \cup (IF IsSome(assignee) THEN {<<d, "assigned-to">>} ELSE {})
  IN [key \in keys |->
        CASE key[2] = "state" -> Unwrap(st)
          [] key[2] = "agent-status" -> Unwrap(ag)
          [] key[2] = "assigned-to" -> Unwrap(assignee)]

LineStores == {{<<NameA>>}, {<<NameA>>, <<NameA, NameB>>}}

InitLine ==
  /\ rootExists = TRUE
  /\ dirs \in LineStores
  /\ \E d \in dirs, st \in Optional(StateContents),
        ag \in Optional(AgentStatusContents), assignee \in Optional(AssignedToContents) :
       files = FieldFiles(d, st, ag, assignee)
  /\ DefaultState
  /\ NotYetLoaded

NextLine ==
  \/ Load
  \/ \E rows \in RowsSet, cols \in ColsSet : Render(rows, cols)

SpecLine == InitLine /\ [][NextLine]_vars

\* ------------------------------------------------------------------------
\* Repeated rebuilds of a store that no other program edits: load, then
\* timer events, 'r', the move keys and renders
\* ------------------------------------------------------------------------
\* directories in a store that is rebuilt repeatedly
RebuildMaxDirs == 3

RebuildStores == StoresUpTo(RebuildMaxDirs, MaxDepth, TreeNames)

RebuildKeys == {"r", "Up", "Down"}

InitRebuild ==
  /\ rootExists = TRUE
  /\ dirs \in RebuildStores
  /\ files = <<>>
  /\ DefaultState
  /\ NotYetLoaded

NextRebuild ==
  \/ Load
  \/ TimerTick
  \/ \E k \in RebuildKeys : KeyPress(k, TRUE)
  \/ \E rows \in RowsSet : Render(rows, 0)

SpecRebuild == InitRebuild /\ [][NextRebuild]_vars

\* ------------------------------------------------------------------------
\* get_field on the field files of one task: load reads them
\* ------------------------------------------------------------------------
\* contents of a field file: empty, blank, padded with whitespace, with
\* whitespace inside, and not UTF-8
FieldContents ==
  {<<>>, <<" ">>, <<"\n", " ", "\t">>, <<"m", "e">>, <<" ", "m", "e", "\n">>,
   <<"\t", "m", " ", "e", " ">>, <<"m", "e", InvalidByte>>, <<" ", InvalidByte>>}

InitField ==
  /\ rootExists = TRUE
  /\ dirs \in LineStores
  /\ \E d \in dirs, ag \in Optional(FieldContents), assignee \in Optional(FieldContents) :
       files = FieldFiles(d, None, ag, assignee)
  /\ DefaultState
  /\ NotYetLoaded

NextField == Load

SpecField == InitField /\ [][NextField]_vars

\* ------------------------------------------------------------------------
\* The highlighted row: load scans a store whose task carries field files,
\* the move keys select a row, render prints the frame
\* ------------------------------------------------------------------------
\* contents of an assigned-to file: plain text, text with a control sequence
\* in it, and an escape that starts a sequence and does not end it
HighlightContents ==
  {<<"m", "e">>, Reverse \o <<"x">>, <<"x">> \o Reset, <<Esc, "[">>}

InitHighlight ==
  /\ rootExists = TRUE
  /\ dirs \in LineStores
  /\ \E d \in dirs, st \in Optional({<<"d", "o", "n", "e">>}),
        assignee \in Optional(HighlightContents) :
       files = FieldFiles(d, st, None, assignee)
  /\ DefaultState
  /\ NotYetLoaded

NextHighlight ==
  \/ Load
  \/ \E k \in {"Up", "Down"} : KeyPress(k, TRUE)
  \/ \E rows \in RowsSet, cols \in ColsSet : Render(rows, cols)

SpecHighlight == InitHighlight /\ [][NextHighlight]_vars

\* ------------------------------------------------------------------------
\* Refreshes of a nested store that other programs edit, state files
\* included: load, timer events, 'r' and the move keys
\* ------------------------------------------------------------------------
\* directories in the store that is refreshed
ScanMaxDirs == 3

\* what other programs write into the field files of a task
ScanFiles == {<<"state", <<"w", "i", "p">>>>}

ScanStoreEdit ==
  \/ CreateRoot
  \/ RemoveRoot
  \/ \E p \in SessionPaths : Mkdir(p, ScanMaxDirs)
  \/ \E p \in dirs : Rmdir(p)
  \/ \E d \in dirs, f \in ScanFiles : WriteFile(d, f[1], f[2])
  \/ \E key \in DOMAIN files : RemoveFile(key)

NextScan ==
  \/ Load
  \/ TimerTick
  \/ \E k \in RebuildKeys : KeyPress(k, TRUE)
  \/ ScanStoreEdit

SpecScan == Init /\ [][NextScan]_vars

\* ------------------------------------------------------------------------
\* Properties
\* ------------------------------------------------------------------------
\* rows - 3 - toast rows, for a render of the current state at height rows
VisibleRowsAt(rows) == MaxTaskRows(rows, toast_message)

\* the selected row lies in the window of v rows starting at scroll
InWindow(sel, scroll, v) == scroll <= sel /\ sel < scroll + v

\* C1 as claimed: in every state, whatever frame height the host uses, a
\* non-empty list with visibleRows > 0 has
\* scroll_offset <= selected_index < scroll_offset + visibleRows.
C1_ViewportInEveryState ==
  \A rows \in RowsSet :
    (tasks # <<>> /\ VisibleRowsAt(rows) > 0)
      => InWindow(selected_index, scroll_offset, VisibleRowsAt(rows))

\* C1 as amended: the state a render of a non-empty list with
\* visibleRows > 0 leaves has
\* scroll_offset <= selected_index < scroll_offset + visibleRows.
C1_ViewportAfterRender ==
  (lastOp = "render" /\ tasks # <<>> /\ visibleRows > 0)
    => InWindow(selected_index, scroll_offset, visibleRows)

\* a render has scrolled the window down to a selection moved below it
C1_Witness ==
  /\ lastOp = "render"
  /\ Len(tasks) = 3
  /\ selected_index = 2
  /\ scroll_offset = 2
  /\ visibleRows = 1
  /\ Len(frame) = 1

\* C2: selected_index is a valid index of the task list: below tasks.len()
\* when the list is non-empty, 0 when it is empty.
C2_SelectedIndexValid ==
  /\ tasks # <<>> => selected_index \in 0..(Len(tasks) - 1)
  /\ tasks = <<>> => selected_index = 0

\* a timer tick has found a list of one task after the selection had been
\* moved down and scrolled to
C2_Witness ==
  /\ lastOp = "timer"
  /\ Len(tasks) = 1
  /\ selected_index = 0
  /\ scroll_offset > 0

\* C3 as claimed: scroll_offset is a valid index of the task list: below
\* tasks.len() when the list is non-empty, 0 when it is empty.
C3_ScrollOffsetValid ==
  /\ tasks # <<>> => scroll_offset \in 0..(Len(tasks) - 1)
  /\ tasks = <<>> => scroll_offset = 0

\* C3 as amended: after a render of a non-empty list
\* scroll_offset <= selected_index, so scroll_offset is below tasks.len().
C3_ScrollOffsetValidAfterRender ==
  (lastOp = "render" /\ tasks # <<>>)
    => /\ scroll_offset <= selected_index
       /\ scroll_offset \in 0..(Len(tasks) - 1)

\* a render has pulled back a scroll_offset that a shorter list had left
\* beyond its end
C3_Witness ==
  /\ lastOp = "render"
  /\ Len(tasks) = 2
  /\ scroll_offset = 1
  /\ selected_index = 1
  /\ visibleRows = 0

\* a step that runs refresh_tasks
RefreshStep ==
  \/ Load /\ rootExists
  \/ TimerTick
  \/ KeyPress("r", TRUE)

\* C4: refresh_tasks keeps selected_index when it is below the new length,
\* sets it to the new length - 1 when it is not and the list is non-empty,
\* and to 0 when the list is empty; it leaves scroll_offset unchanged.
C4_RebuildClamp ==
  [][RefreshStep =>
       LET newLen == Len(tasks')
       IN /\ selected_index' =
               IF selected_index < newLen THEN selected_index
               ELSE IF newLen > 0 THEN newLen - 1
               ELSE 0
          /\ scroll_offset' = scroll_offset]_vars

\* an 'r' has clamped the selection to the end of a list of two, and the
\* scroll_offset of the longer list is still in place
C4_Witness ==
  /\ lastOp = "key"
  /\ scanned
  /\ Len(tasks) = 2
  /\ selected_index = 1
  /\ scroll_offset = 2

\* C5: Up and 'k' set selected_index to max(selected_index - 1, 0); Down and
\* 'j' set it to min(selected_index + 1, len - 1) and change nothing on an
\* empty list; both leave tasks, scroll_offset, the toast and the error
\* unchanged and are reported as handled.
C5_MoveKeys ==
  [][/\ \A k \in {"Up", "k"} :
          KeyPress(k, TRUE) =>
            /\ selected_index' = Max(selected_index - 1, 0)
            /\ handled'
            /\ UNCHANGED <<tasks, scroll_offset, toast_message,
                           toast_ticks_remaining, error>>
     /\ \A k \in {"Down", "j"} :
          KeyPress(k, TRUE) =>
            /\ selected_index' =
                 IF tasks = <<>> THEN selected_index
                 ELSE Min(selected_index + 1, Len(tasks) - 1)
            /\ handled'
            /\ UNCHANGED <<tasks, scroll_offset, toast_message,
                           toast_ticks_remaining, error>>]_vars

\* a move key has taken the selection to the last of three tasks
C5_Witness ==
  /\ lastOp = "key"
  /\ handled
  /\ ~scanned
  /\ requests = <<>>
  /\ Len(tasks) = 3
  /\ selected_index = 2
  /\ scroll_offset = 0

Abs(n) == IF n < 0 THEN -n ELSE n

\* C6: render moves scroll_offset to the value nearest to the old one whose
\* window holds the selected row: unchanged when the row was inside,
\* selected_index when it was above, selected_index - visibleRows + 1 when
\* it was below.
C6_MinimalScroll ==
  [][(lastOp' = "render" /\ tasks # <<>> /\ visibleRows' > 0) =>
       LET v == visibleRows'
           sel == selected_index
           fits == {s \in 0..sel : InWindow(sel, s, v)}
       IN /\ scroll_offset' \in fits
          /\ \A s \in fits : Abs(scroll_offset' - scroll_offset) <= Abs(s - scroll_offset)
          /\ InWindow(sel, scroll_offset, v) => scroll_offset' = scroll_offset
          /\ sel < scroll_offset => scroll_offset' = sel
          /\ sel >= scroll_offset + v => scroll_offset' = sel - v + 1]_vars

\* a render with two visible rows has scrolled down by one row only
C6_Witness ==
  /\ lastOp = "render"
  /\ toast_message = None
  /\ Len(tasks) = 3
  /\ selected_index = 2
  /\ scroll_offset = 1
  /\ visibleRows = 2
  /\ Len(frame) = 2

\* C7: a load that finds no root directory sets the error; no event clears
\* or changes it; every render then prints the error line and nothing else.
C7_ErrorPersistent ==
  [][/\ (Load /\ ~rootExists) => IsSome(error')
     /\ IsSome(error) => error' = error
     /\ \A rows \in RowsSet, cols \in ColsSet :
          (IsSome(error) /\ Render(rows, cols))
            => frame' = <<Red \o StrErrorLabel \o StrYaksNotFound \o Reset>>]_vars

\* the error line is rendered although the store has since appeared
C7_Witness ==
  /\ IsSome(error)
  /\ lastOp = "render"
  /\ Len(frame) = 1
  /\ rootExists
  /\ dirs # {}

\* C8: once the error is set, no callback reads a directory of the store,
\* the repository stays unset and the task list stays empty.
C8_NoScanAfterError ==
  IsSome(error) => /\ ~scanned
                   /\ yaks_dir = NoYaksDir
                   /\ tasks = <<>>

\* a timer tick has run in the error state while the store holds a task
C8_Witness ==
  /\ IsSome(error)
  /\ lastOp = "timer"
  /\ rootExists
  /\ dirs # {}

\* the indices of the tasks that share the parent path of task i
SiblingGroup(ts, i) ==
  {j \in 1..Len(ts) : ParentPath(ts[j].path) = ParentPath(ts[i].path)}

\* C9: in each group of tasks of the same parent path exactly one has
\* is_last_sibling, and it is the last of the group in list order.
C9_LastSibling ==
  pc = "running" =>
    \A i \in 1..Len(tasks) :
      LET group == SiblingGroup(tasks, i)
      IN /\ Cardinality({j \in group : tasks[j].is_last_sibling}) = 1
         /\ tasks[i].is_last_sibling = (\A j \in group : j <= i)

\* a nested group of two siblings: the first is not last, the second is
C9_Witness ==
  /\ pc = "running"
  /\ \E i, j \in 1..Len(tasks) :
       /\ i < j
       /\ tasks[i].depth = 1
       /\ ParentPath(tasks[i].path) = ParentPath(tasks[j].path)
       /\ ~tasks[i].is_last_sibling
       /\ tasks[j].is_last_sibling

\* path with its last k segments removed
RECURSIVE Ancestor(_, _)
Ancestor(path, k) == IF k = 0 THEN path ELSE Ancestor(ParentPath(path), k - 1)

\* some task of the same parent path follows the last task of path a
HasLaterSibling(ts, a) ==
  \E i \in 1..Len(ts) :
    /\ ts[i].path = a
    /\ \A l \in 1..Len(ts) : ts[l].path = a => l <= i
    /\ \E j \in 1..Len(ts) : j > i /\ ParentPath(ts[j].path) = ParentPath(a)

\* C10 as claimed: every task has exactly depth ancestor_continuations, the
\* k-th being the one of its k-th nearest ancestor.
C10_ContinuationsLength ==
  pc = "running" =>
    \A i \in 1..Len(tasks) :
      /\ Len(tasks[i].ancestor_continuations) = tasks[i].depth
      /\ \A k \in 1..Len(tasks[i].ancestor_continuations) :
           tasks[i].ancestor_continuations[k]
             = HasLaterSibling(tasks, Ancestor(tasks[i].path, k))

\* the nearest task before task i that the scan found at depth d: the
\* directory of task i lies below the directory of that task
AncestorAtDepth(ts, i, d) ==
  CHOOSE a \in 1..(i - 1) :
    /\ ts[a].depth = d
    /\ \A l \in (a + 1)..(i - 1) : ts[l].depth # d

\* some task of the same parent path follows task a in the list
LaterSibling(ts, a) ==
  \E j \in (a + 1)..Len(ts) : ParentPath(ts[j].path) = ParentPath(ts[a].path)

\* the proper prefixes of path that end before a '/', the longest first
RECURSIVE AncestorPaths(_)
AncestorPaths(path) ==
  IF RFind(path, "/") = 0 THEN <<>>
  ELSE <<ParentPath(path)>> \o AncestorPaths(ParentPath(path))

\* the tasks of path p
NodesAt(ts, p) == {a \in 1..Len(ts) : ts[a].path = p}

\* the ancestors of task i: the prefixes of its path that are tasks
AncestorsOf(ts, i) ==
  SelectSeq(AncestorPaths(ts[i].path), LAMBDA p : NodesAt(ts, p) # {})

\* C11 as claimed: for every task N and every task A whose path is the
\* k-th nearest ancestor path of N, the k-th entry of N's
\* ancestor_continuations is true exactly when a task of the same parent
\* path as A follows A in the list.
C11_ContinuationIffLaterSibling ==
  pc = "running" =>
    \A i \in 1..Len(tasks) :
      LET anc == AncestorsOf(tasks, i)
          cont == tasks[i].ancestor_continuations
      IN \A k \in 1..Min(Len(anc), Len(cont)) :
           \A a \in NodesAt(tasks, anc[k]) : cont[k] = LaterSibling(tasks, a)

\* the store parent/child/grandchild, parent/child2, with parent and child
\* named a, grandchild named a and child2 named b
ScenarioStore ==
  {<<NameA>>, <<NameA, NameA>>, <<NameA, NameA, NameA>>, <<NameA, NameB>>}

\* the task path of grandchild
GrandchildPath == TaskPath(<<NameA, NameA, NameA>>)

\* one vertical-continuation column followed by the "last" connector
ColumnThenLast ==
  Gray \o <<"VLINE", " ">> \o Reset \o Gray \o <<"CORNER", "HLINE">> \o Reset

\* C12 as claimed: after the scan of the scenario store, grandchild has
\* ancestor_continuations = [true], is_last_sibling = true and the prefix
\* of one continuation column followed by the "last" connector.
C12_GrandchildSingleContinuation ==
  (pc = "running" /\ dirs = ScenarioStore) =>
    \E i \in 1..Len(tasks) :
      /\ tasks[i].path = GrandchildPath
      /\ tasks[i].ancestor_continuations = <<TRUE>>
      /\ tasks[i].is_last_sibling
      /\ tree_prefix(tasks[i]) = ColumnThenLast

\* C12 as amended: after the scan of the scenario store, grandchild has
\* depth 2, ancestor_continuations = [true, false] (child has the later
\* sibling child2, parent has none), is_last_sibling = true and the prefix
\* of one continuation column followed by the "last" connector.
C12_GrandchildScenario ==
  (pc = "running" /\ dirs = ScenarioStore) =>
    \E i \in 1..Len(tasks) :
      /\ tasks[i].path = GrandchildPath
      /\ tasks[i].depth = 2
      /\ tasks[i].ancestor_continuations = <<TRUE, FALSE>>
      /\ tasks[i].is_last_sibling
      /\ tree_prefix(tasks[i]) = ColumnThenLast

\* the scenario store has been scanned into its four tasks
C12_Witness ==
  /\ pc = "running"
  /\ dirs = ScenarioStore
  /\ Len(tasks) = 4
  /\ tasks[3].path = GrandchildPath

VerticalColumn == Gray \o <<"VLINE", " ">> \o Reset
BlankColumn == <<" ", " ">>
LastConnector == Gray \o <<"CORNER", "HLINE">> \o Reset
MidConnector == Gray \o <<"TEE", "HLINE">> \o Reset

\* columns j..d - 1 of the prefix of task i, column j showing whether the
\* ancestor of task i at depth j has a later sibling
RECURSIVE LayoutColumns(_, _, _)
LayoutColumns(ts, i, j) ==
  IF j >= ts[i].depth THEN <<>>
  ELSE (IF LaterSibling(ts, AncestorAtDepth(ts, i, j))
        THEN VerticalColumn ELSE BlankColumn)
       \o LayoutColumns(ts, i, j + 1)

\* C13 as claimed: the prefix of a depth-0 task is empty; the prefix of a
\* task of depth d > 0 is d - 1 columns followed by one connector, column j
\* being the vertical-continuation glyph when the task's ancestor at depth j
\* has a later sibling and two blanks otherwise, the connector being the
\* "last" glyph when is_last_sibling and the "mid" glyph otherwise.
C13_PrefixLayout ==
  pc = "running" =>
    \A i \in 1..Len(tasks) :
      tree_prefix(tasks[i]) =
        IF tasks[i].depth = 0 THEN <<>>
        ELSE LayoutColumns(tasks, i, 1)
             \o (IF tasks[i].is_last_sibling THEN LastConnector ELSE MidConnector)

\* some directory name on the way to p starts with '.'
BelowHidden(p) == \E n \in 1..Len(p) : StartsWith(p[n], <<".">>)

\* C14 as claimed: no task path has a segment that starts with '.', and no
\* directory that is a dot-directory or lies below one becomes a task,
\* whether the dot-directory is at the root or nested under a task.
C14_HiddenExcluded ==
  pc = "running" =>
    /\ \A i \in 1..Len(tasks) :
         \A seg \in {Split(tasks[i].path, "/")[n] :
                       n \in 1..Len(Split(tasks[i].path, "/"))} :
           ~StartsWith(seg, <<".">>)
    /\ \A p \in dirs :
         BelowHidden(p) => \A i \in 1..Len(tasks) : tasks[i].path # TaskPath(p)

\* the agent status carries the prefix
HasStatusPrefix(task, prefix) ==
  IsSome(task.agent_status) /\ StartsWith(Unwrap(task.agent_status), prefix)

\* red, green or yellow by the agent status prefix, else the lifecycle colour
PrecedenceColour(task) ==
  IF HasStatusPrefix(task, StrBlocked) THEN Red
  ELSE IF HasStatusPrefix(task, StrDone) THEN Green
  ELSE IF HasStatusPrefix(task, StrWip) THEN Yellow
  ELSE IF task.state = "Wip" THEN Yellow
  ELSE IF task.state = "Done" THEN Gray
  ELSE White

\* the colour sequence the rendered line of the task carries after the prefix
LineColour(task) ==
  LET start == Len(tree_prefix(task))
  IN SubSeq(render_task(task), start + 1, start + Len(Red))

WithoutAgentStatus(F) ==
  [key \in {k \in DOMAIN F : k[2] # "agent-status"} |-> F[key]]

\* the glyph the rendered line of the task carries after the colour
LineGlyph(task) == render_task(task)[Len(tree_prefix(task)) + Len(Red) + 1]

\* C16: the glyph of the rendered line is the filled circle exactly when
\* the agent status starts with done:, wip: or blocked: or the lifecycle
\* state is Wip or Done, and the open circle exactly when the state is Todo
\* without such a prefix; the lifecycle state is the one the store gives
\* without the agent-status files.
C16_StatusGlyph ==
  pc = "running" =>
    \A i \in 1..Len(tasks) :
      LET t == tasks[i]
          recognised == \/ HasStatusPrefix(t, StrDone)
                        \/ HasStatusPrefix(t, StrWip)
                        \/ HasStatusPrefix(t, StrBlocked)
      IN /\ LineGlyph(t) = status_symbol(t)
         /\ (LineGlyph(t) = "FILLED") = (recognised \/ t.state \in {"Wip", "Done"})
         /\ (LineGlyph(t) = "OPEN") = (t.state = "Todo" /\ ~recognised)
         /\ t.state = get_task(WithoutAgentStatus(files), t.path, t.depth).state

\* a render has printed a Todo task with the filled circle of its agent status
C16_Witness ==
  /\ lastOp = "render"
  /\ Len(frame) >= 1
  /\ \E i \in 1..Len(tasks) :
       /\ tasks[i].state = "Todo"
       /\ HasStatusPrefix(tasks[i], StrWip)
       /\ LineGlyph(tasks[i]) = "FILLED"

\* C17 as claimed, its upper bound: a render of a non-empty list without
\* error prints at most rows lines, for every rows >= 0, with or without a
\* toast.
C17_FrameWithinRows ==
  [][\A rows \in RowsSet, cols \in ColsSet :
       (Render(rows, cols) /\ ~IsSome(error) /\ tasks # <<>>)
         => Len(frame') <= rows]_vars

\* the keys update has an arm for
BoundKeys == {"Up", "Down", "k", "j", "r", "e", "y", "Enter"}

\* C18: a key event other than an unmodified Up, Down, 'k', 'j', 'r', 'e',
\* 'y' or Enter, a bound key pressed with a modifier included, makes update
\* return false, leaves every field of the state and the store unchanged
\* and issues no host request.
C18_UnhandledKeys ==
  [][\A k \in Keys, nomod \in BOOLEAN :
       (KeyPress(k, nomod) /\ ~(nomod /\ k \in BoundKeys))
         => /\ ~handled'
            /\ requests' = <<>>
            /\ UNCHANGED stateVars
            /\ UNCHANGED storeVars]_vars

\* an unhandled key has arrived while a task was selected and a toast shown
C18_Witness ==
  /\ lastOp = "key"
  /\ ~handled
  /\ Len(tasks) = 2
  /\ selected_index = 1
  /\ IsSome(toast_message)

\* C19: 'y' with a selected task sets the toast and a positive countdown in
\* the same step as it issues the clipboard request; a timer event lowers
\* a positive countdown by one and clears the toast when the countdown
\* reaches zero; a toast is shown only while the countdown is positive; and
\* when timer events keep arriving every toast shown is eventually cleared.
C19_ToastCountdown ==
  /\ [][(KeyPress("y", TRUE) /\ IsSome(SelectedTask))
          => /\ toast_message' = Some(StrCopied \o Unwrap(SelectedTask).yak_id)
             /\ toast_ticks_remaining' > 0
             /\ requests' = <<Request("run_command", Unwrap(SelectedTask).yak_id)>>]_vars
  /\ [][TimerTick
          => /\ toast_ticks_remaining' = Max(toast_ticks_remaining - 1, 0)
             /\ toast_ticks_remaining' = 0 => toast_message' = None
             /\ toast_ticks_remaining' > 0 => toast_message' = toast_message]_vars
  /\ [](IsSome(toast_message) => toast_ticks_remaining > 0)
  /\ (IsSome(toast_message) ~> ~IsSome(toast_message))

\* 'y' has set the toast and its countdown and issued the clipboard request
C19_Witness ==
  /\ lastOp = "key"
  /\ handled
  /\ IsSome(toast_message)
  /\ toast_ticks_remaining = 1
  /\ Len(requests) = 1
  /\ requests[1].kind = "run_command"

\* C20 as claimed: render leaves every field of the state unchanged.
C20_RenderLeavesState ==
  [][lastOp' = "render" => UNCHANGED stateVars]_vars

\* scroll_offset after a second render of the same height
RenderScrollTwice(rows) ==
  RenderScroll(error, tasks, selected_index,
               RenderScroll(error, tasks, selected_index, scroll_offset,
                            toast_message, rows),
               toast_message, rows)

\* C20 as amended: render leaves the repository, tasks, selected_index, the
\* toast and the error unchanged; it writes scroll_offset, and only when
\* there is no error and the list is non-empty; a second render of the same
\* height leaves the scroll_offset of the first, so it prints the same
\* frame and changes nothing.
C20_RenderWritesOnlyScroll ==
  /\ [][lastOp' = "render" =>
          /\ UNCHANGED <<yaks_dir, tasks, selected_index, error,
                         toast_message, toast_ticks_remaining>>
          /\ (IsSome(error) \/ tasks = <<>>) => scroll_offset' = scroll_offset]_vars
  /\ [](\A rows \in RowsSet :
          RenderScrollTwice(rows)
            = RenderScroll(error, tasks, selected_index, scroll_offset,
                           toast_message, rows))

\* a render has moved scroll_offset to the second of three tasks
C20_Witness ==
  /\ lastOp = "render"
  /\ Len(tasks) = 3
  /\ selected_index = 1
  /\ scroll_offset = 1
  /\ visibleRows = 1
  /\ toast_message = None

\* C21: on a store that does not change, every run of refresh_tasks after the
\* one made by load installs the same task list, with the same depth,
\* has_children, is_last_sibling and ancestor_continuations for every node,
\* and leaves selected_index and scroll_offset as they are.
C21_RebuildIdempotent ==
  [][(pc = "running" /\ RefreshStep) =>
       /\ tasks' = tasks
       /\ selected_index' = selected_index
       /\ scroll_offset' = scroll_offset]_vars

\* a timer event has rebuilt a nested list of three while its last task is
\* selected and the window has scrolled down to it
C21_Witness ==
  /\ lastOp = "timer"
  /\ Len(tasks) = 3
  /\ \E i \in 1..3 : tasks[i].depth > 0
  /\ selected_index = 2
  /\ scroll_offset = 2

\* C22: every listed node with a '/' in its path has its parent path listed
\* before it, no path is listed twice, and every node's depth is the number
\* of '/'-separated segments of its path minus one.
C22_ScanComplete ==
  pc = "running" =>
    /\ \A i \in 1..Len(tasks) :
         /\ RFind(tasks[i].path, "/") # 0 =>
              \E j \in 1..(i - 1) : tasks[j].path = ParentPath(tasks[i].path)
         /\ tasks[i].depth = Len(Split(tasks[i].path, "/")) - 1
    /\ \A i, j \in 1..Len(tasks) : tasks[i].path = tasks[j].path => i = j

\* t is s without its leading and trailing whitespace
IsTrimOf(t, s) ==
  \E a \in 1..(Len(s) + 1), b \in 0..Len(s) :
    /\ a <= b + 1
    /\ t = SubSeq(s, a, b)
    /\ \A k \in 1..(a - 1) : IsWhitespace(s[k])
    /\ \A k \in (b + 1)..Len(s) : IsWhitespace(s[k])
    /\ t # <<>> => ~IsWhitespace(t[1]) /\ ~IsWhitespace(t[Len(t)])

\* the bytes of the file are text
Readable(bytes) == InvalidByte \notin {bytes[k] : k \in 1..Len(bytes)}

\* v is what the claim gives for the field file key of the store
FieldValueAsClaimed(v, key) ==
  IF \/ key \notin DOMAIN files
     \/ ~Readable(files[key])
     \/ IsTrimOf(<<>>, files[key])
  THEN v = None
  ELSE IsSome(v) /\ IsTrimOf(Unwrap(v), files[key])

\* C23: the assigned-to and agent-status of every task are none when the
\* field file is missing, unreadable or blank, and its content without the
\* leading and trailing whitespace otherwise; reading unreadable files sets
\* no error, and reading changes nothing in the store.
C23_GetField ==
  /\ [](pc = "running" =>
          /\ error = None
          /\ \A d \in dirs :
               \E i \in 1..Len(tasks) :
                 /\ tasks[i].path = TaskPath(d)
                 /\ FieldValueAsClaimed(tasks[i].assigned_to, <<d, "assigned-to">>)
                 /\ FieldValueAsClaimed(tasks[i].agent_status, <<d, "agent-status">>))
  /\ [][Load => UNCHANGED storeVars]_vars

\* load has read a padded assigned-to file as its trimmed content, and an
\* agent-status file that is not UTF-8 as none
C23_Witness ==
  /\ pc = "running"
  /\ error = None
  /\ <<<<NameA>>, "assigned-to">> \in DOMAIN files
  /\ files[<<<<NameA>>, "assigned-to">>] = <<"\t", "m", " ", "e", " ">>
  /\ <<<<NameA>>, "agent-status">> \in DOMAIN files
  /\ files[<<<<NameA>>, "agent-status">>] = <<"m", "e", InvalidByte>>
  /\ tasks[1].assigned_to = Some(<<"m", " ", "e">>)
  /\ tasks[1].agent_status = None

\* the positions of s at which pat begins
Occurrences(s, pat) ==
  {i \in 1..(Len(s) - Len(pat) + 1) : SubSeq(s, i, i + Len(pat) - 1) = pat}

EndsWith(s, p) ==
  Len(s) >= Len(p) /\ SubSeq(s, Len(s) - Len(p) + 1, Len(s)) = p

\* h is line wrapped in the background: it starts with the background
\* sequence, ends with a reset, and every reset before the final one is one
\* of line's and is followed at once by the background sequence
BackgroundSpan(h, line) ==
  /\ StartsWith(h, Bg)
  /\ EndsWith(h, Reset)
  /\ Cardinality(Occurrences(h, Reset)) = Cardinality(Occurrences(line, Reset)) + 1
  /\ \A i \in Occurrences(h, Reset) :
       \/ i = Len(h) - Len(Reset) + 1
       \/ SubSeq(h, i + Len(Reset), i + Len(Reset) + Len(Bg) - 1) = Bg

\* a render at cols columns has padded h to cols visible characters
PaddedTo(h, line, cols) ==
  Len(strip_ansi(line)) <= cols => Len(strip_ansi(h)) = cols

\* the render has printed the selected row
SelectedRowPrinted ==
  /\ error' = None
  /\ tasks' # <<>>
  /\ scroll_offset' <= selected_index'
  /\ selected_index' < scroll_offset' + visibleRows'

\* the selected row of the frame just printed
PrintedSelectedRow == frame'[selected_index' - scroll_offset' + 1]

\* C24 as claimed: the highlighted line is a background span around the
\* line, padded to the column count, and holds no reverse-video sequence.
C24_HighlightNoReverse ==
  [][\A rows \in RowsSet, cols \in ColsSet :
       (Render(rows, cols) /\ SelectedRowPrinted) =>
         LET line == render_task(tasks'[selected_index' + 1])
         IN /\ BackgroundSpan(PrintedSelectedRow, line)
            /\ PaddedTo(PrintedSelectedRow, line, cols)
            /\ Occurrences(PrintedSelectedRow, Reverse) = {}]_vars

\* C24: the highlighted line is a background span around the line, padded
\* to the column count when the line is not wider, and highlighting adds no
\* reverse-video sequence: the highlighted line holds as many as the line.
C24_HighlightSpan ==
  [][\A rows \in RowsSet, cols \in ColsSet :
       (Render(rows, cols) /\ SelectedRowPrinted) =>
         LET line == render_task(tasks'[selected_index' + 1])
         IN /\ BackgroundSpan(PrintedSelectedRow, line)
            /\ PaddedTo(PrintedSelectedRow, line, cols)
            /\ Cardinality(Occurrences(PrintedSelectedRow, Reverse)) =
                 Cardinality(Occurrences(line, Reverse))]_vars

\* the selected row of a done task, three characters wide with a reset after
\* its struck-through name, has been printed padded to MaxCols
C24_Witness ==
  /\ lastOp = "render"
  /\ Len(tasks) = 1
  /\ tasks[1].state = "Done"
  /\ Len(frame) = 1
  /\ StartsWith(frame[1], Bg)
  /\ Cardinality(Occurrences(frame[1], Reset)) = 3
  /\ Len(strip_ansi(render_task(tasks[1]))) = 3
  /\ Len(strip_ansi(frame[1])) = MaxCols

\* directory p comes before directory q in the depth-first walk that visits
\* the directories of one parent in the order of their names
WalkedBefore(p, q) ==
  \/ Len(p) < Len(q) /\ SubSeq(q, 1, Len(p)) = p
  \/ \E n \in 1..Min(Len(p), Len(q)) :
       /\ SubSeq(p, 1, n - 1) = SubSeq(q, 1, n - 1)
       /\ StrLess(p[n], q[n])

\* directory p of the store D has a sibling named after it
FollowedBySibling(D, p) ==
  \E q \in D : Len(q) = Len(p) /\ DirParent(q) = DirParent(p) /\ StrLess(Last(p), Last(q))

\* the node of directory p, read from the store (D, F) alone
ScannedNode(D, F, p) ==
  [path |-> TaskPath(p),
   name |-> Last(p),
   yak_id |-> Last(p),
   depth |-> Len(p) - 1,
   state |-> IF <<p, "state">> \in DOMAIN F /\ F[<<p, "state">>] = <<"w", "i", "p">>
             THEN "Wip" ELSE "Todo",
   assigned_to |-> None,
   agent_status |-> None,
   has_children |-> \E q \in D : Len(q) = Len(p) + 1 /\ DirParent(q) = p,
   is_last_sibling |-> ~FollowedBySibling(D, p),
   ancestor_continuations |->
     [k \in 1..(Len(p) - 1) |-> FollowedBySibling(D, SubSeq(p, 1, Len(p) - k))]]

\* ts is the depth-first scan of the store (root, D, F)
IsScanOf(ts, root, D, F) ==
  IF ~root THEN ts = <<>>
  ELSE /\ Len(ts) = Cardinality(D)
       /\ \A p \in D : \E i \in 1..Len(ts) : ts[i] = ScannedNode(D, F, p)
       /\ \A i, j \in 1..Len(ts) :
            i < j => WalkedBefore(ResolveDir(ts[i].path), ResolveDir(ts[j].path))

\* C25: without an error, a timer event and an 'r' leave the task list equal
\* to the depth-first scan of the store as it is then, fields and layout
\* flags included, whatever the list was before; both ask for a redraw.
C25_WholesaleRefresh ==
  [][(pc = "running" /\ error = None /\ (TimerTick \/ KeyPress("r", TRUE))) =>
       /\ IsScanOf(tasks', rootExists', dirs', files')
       /\ handled']_vars

\* an 'r' has scanned a store of three directories, one of them wip and one
\* below a directory that has a later sibling
C25_Witness ==
  /\ lastOp = "key"
  /\ scanned
  /\ Len(tasks) = 3
  /\ \E i \in 1..3 : tasks[i].state = "Wip"
  /\ \E i \in 1..3 : tasks[i].ancestor_continuations = <<TRUE>>

\* some ancestor path of tasks[i] is the path of no task
MissingAncestor(ts, i) ==
  LET ancestors == AncestorPaths(ts[i].path)
  IN \E k \in 1..Len(ancestors) : NodesAt(ts, ancestors[k]) = {}

\* the columns tree_prefix prints before the connector of task
ColumnsPrinted(task) ==
  IF task.depth = 0 THEN 0 ELSE (Len(strip_ansi(tree_prefix(task))) - 2) \div 2

\* tree_prefix prints at most min(depth - 1, sequence length) columns for task
PrefixWithinSequence(task) ==
  ColumnsPrinted(task) <=
    Min(SaturatingSub(task.depth, 1), Len(task.ancestor_continuations))

\* C26: a node with an ancestor path that is the path of no node gets a
\* continuation sequence shorter than its depth, and tree_prefix prints at
\* most min(depth - 1, sequence length) columns for it.
C26_MalformedChain ==
  pc = "running" =>
    \A i \in 1..Len(tasks) :
      MissingAncestor(tasks, i) =>
        /\ Len(tasks[i].ancestor_continuations) < tasks[i].depth
        /\ PrefixWithinSequence(tasks[i])

\* the list is non-empty and the store holds context.md for the selected node
HasContext ==
  /\ tasks # <<>>
  /\ rootExists
  /\ <<ResolveDir(tasks[selected_index + 1].path), "context.md">> \in DOMAIN files

\* what Enter and 'e' leave as it is
KeptByContextKeys ==
  UNCHANGED <<tasks, selected_index, scroll_offset, toast_message,
              toast_ticks_remaining, error>>

EmittedTaskRows ==
  SubSeq(frame, 1, Len(frame) - (IF IsSome(toast_message) THEN 2 ELSE 0))

\* row shows task: the same visible text, padding aside
ShowsTask(row, task) == TrimEnd(strip_ansi(row)) = strip_ansi(render_task(task))

\* C28: after a render without an error, with a non-empty list and at least
\* one visible row, the task rows of the frame show tasks[scroll_offset + 1]
\* onwards in order, min(visibleRows, len - scroll_offset) of them, and the
\* one highlighted row is the row of tasks[selected_index].
C28_OneHighlightedRow ==
  (lastOp = "render" /\ error = None /\ tasks # <<>> /\ visibleRows > 0) =>
    LET emitted == EmittedTaskRows
    IN /\ Len(emitted) = Min(visibleRows, Len(tasks) - scroll_offset)
       /\ \A k \in 1..Len(emitted) : ShowsTask(emitted[k], tasks[scroll_offset + k])
       /\ {k \in 1..Len(emitted) : StartsWith(emitted[k], Bg)}
            = {selected_index - scroll_offset + 1}

\* a render with two visible rows has printed the second and the third of
\* three tasks, the third one highlighted
C28_Witness ==
  /\ lastOp = "render"
  /\ error = None
  /\ Len(tasks) = 3
  /\ visibleRows = 2
  /\ scroll_offset = 1
  /\ selected_index = 2
  /\ Len(frame) = 2
  /\ ~StartsWith(frame[1], Bg)
  /\ StartsWith(frame[2], Bg)

\* C29: in every state the toast is present exactly when
\* toast_ticks_remaining is positive; a timer event never raises the
\* countdown (no wrap below zero); 'y' on an empty list leaves the toast and
\* its countdown as they are and issues no request.
C29_ToastIffCountdown ==
  /\ []((IsSome(toast_message) <=> toast_ticks_remaining > 0)
        /\ toast_ticks_remaining \in 0..255)
  /\ [][TimerTick => toast_ticks_remaining' <= toast_ticks_remaining]_vars
  /\ [][(KeyPress("y", TRUE) /\ tasks = <<>>) =>
          /\ UNCHANGED <<toast_message, toast_ticks_remaining>>
          /\ requests' = <<>>]_vars

\* a handled key on a list that an 'r' has emptied while the toast of an
\* earlier 'y' is still shown: the toast and its countdown are in place and
\* no request is issued
C29_Witness ==
  /\ lastOp = "key"
  /\ handled
  /\ ~scanned
  /\ error = None
  /\ tasks = <<>>
  /\ IsSome(toast_message)
  /\ toast_ticks_remaining = 1
  /\ requests = <<>>

====
